---- MODULE Spec2Model ----
(***************************************************************************)
(* Blind-Maze-Game: the maze (maze.py), its depth-first generation, the    *)
(* cell query, and the ray caster (ray_casting.py).                        *)
(*                                                                         *)
(* numpy semantics assumed (numpy 1.19 .. 1.26): uint8 & ~mask is computed *)
(* on the promoted type and stored back as uint8; a negative index i of an *)
(* axis of length n with -n <= i < 0 denotes element i + n; an index       *)
(* outside [-n, n) raises IndexError.                                      *)
(***************************************************************************)
EXTENDS Integers, Sequences, FiniteSets, TLC

\* ------------------------------------------------------------------ bounds
MaxW == 3          \* mazes of width 1 .. MaxW
MaxH == 3          \* and height 1 .. MaxH
RayMaxW == 2       \* ray casts are made in mazes of width 1 .. RayMaxW
RayMaxH == 2       \* and height 1 .. RayMaxH
MaxDir == 2        \* with direction components in -MaxDir .. MaxDir
MaxIter == 12      \* and followed for at most MaxIter loop iterations
MaxCoord == 5      \* cell_at is asked for coordinates in -MaxCoord .. MaxCoord
GameMaxCells == 4  \* a Game is played in mazes of at most GameMaxCells cells
MaxDt == 10        \* Game.update is called with dt of 0 .. MaxDt ticks
MaxVel == 2        \* set_velocity is called with components in -MaxVel .. MaxVel
CrumbMaxCells == 2 \* a BreadcrumbTool is used in mazes of at most CrumbMaxCells cells
DroneMaxCells == 4 \* a HallwayCheckTool is used in mazes of at most DroneMaxCells cells
StartMaxCells == 2 \* drones are started by a walking player in mazes of at most StartMaxCells cells
MaxSay == 3        \* say() is called at most MaxSay times
MaxStarts == 2     \* and start_hallway_check is called at most MaxStarts times
MaxDroneStep == 6  \* the longest drone step tried, in units of a quarter of a cell
IterMaxW == 2      \* mazes of width 1 .. IterMaxW
IterMaxH == 2      \* and height 1 .. IterMaxH are iterated

\* ------------------------------------------------------------------ state
VARIABLES
  width,      \* Maze.width
  height,     \* Maze.height
  grid,       \* Maze.grid : [y][x] -> uint8 wall mask
  visited,    \* Maze._visited : [y][x] -> BOOLEAN
  stack,      \* call stack of _generate: frames [x, y, rest]
  phase,      \* "constructed" | "generating" | "generated" | "failed"
  rerun,      \* history: the last generate() call was made on a generated maze
  carved,     \* history: cell pairs whose wall the current run has cleared
  entered,    \* history: [y][x] -> number of _generate entries in this run
  revisit,    \* history: _generate was entered for a cell already visited
  qarg,       \* the (x, y) a caller passes to cell_at
  q,          \* the last cell_at call since generate(): arguments and result
  rarg,       \* the (x, y, dx, dy) a caller passes to ray_cast
  ray,        \* the last ray_cast call since generate(): its outcome
  player,     \* Game.player: x, y, x_velocity, y_velocity, width, height
  op,         \* history: the last call made on the Game, and how it ended
  outer,      \* the generator Maze.__iter__ returned: its state and its variable y
  rows,       \* the row generators it has yielded: next x, and the cell_at calls made
  breadcrumbs,     \* BreadcrumbTool.breadcrumbs: Cell -> number
  tool_last_cell,  \* BreadcrumbTool._last_cell
  tool,       \* history: the last BreadcrumbTool call, "none" before __init__
  placed,     \* history: the marked cells in the order of their placement
  seen,       \* history: the current cell at the previous BreadcrumbTool.update
  spoken,     \* history: the texts the last BreadcrumbTool call passed to say()
  coroutine,  \* the generator hallway_check_coroutine made last: its state and frame
  running,    \* HallwayCheckTool._coroutine_running is that generator (TRUE) or None
  starts,     \* history: the number of generators start_hallway_check has made
  hop,        \* history: the last HallwayCheckTool call, and how it ended
  queued,     \* history: the sounds queued during that call, and by which generator
  advanced,   \* history: the generator that call ran, 0 if none
  in_queue,         \* TTSThread._in_queue
  terminate_event,  \* TTSThread._terminate_event is set
  tts_pc,     \* where the thread is: "new" before start(), then in run()
  tts_text,   \* the local variable text of run()
  engine_pending,   \* the utterances engine.say has queued in the engine
  engine_log, \* history: the texts the engine has spoken, in order
  said        \* history: the texts passed to say(), in the order of the calls

mazeVars == <<width, height, grid, visited, stack, phase, rerun, carved, entered, revisit>>
gameVars == <<player, op>>
iterVars == <<outer, rows>>
toolVars == <<breadcrumbs, tool_last_cell, tool, placed, seen, spoken>>
droneVars == <<coroutine, running, starts, hop, queued, advanced>>
ttsVars == <<in_queue, terminate_event, tts_pc, tts_text, engine_pending, engine_log, said>>
vars == <<mazeVars, qarg, q, rarg, ray, gameVars, iterVars, toolVars, droneVars, ttsVars>>

\* ------------------------------------------------------------------ bits
RECURSIVE BitAndN(_, _, _)
BitAndN(a, b, n) ==
  IF n = 0 \/ a = 0 \/ b = 0 THEN 0
  ELSE (IF a % 2 = 1 /\ b % 2 = 1 THEN 1 ELSE 0) + 2 * BitAndN(a \div 2, b \div 2, n - 1)

\* a & b on 8-bit values
BitAnd(a, b) == BitAndN(a, b, 8)

\* ~m, seen through the uint8 it is and-ed with
BitNot(m) == 255 - m

Pow2(w) == IF w = 0 THEN 1 ELSE IF w = 1 THEN 2 ELSE IF w = 2 THEN 4 ELSE 8

\* ------------------------------------------------------------------ maze.py
InitMask == 15
ResetMask == 15

\* enumerate([(0, -1), (-1, 0), (0, 1), (1, 0)]): wall number w -> offset
Offsets == <<(<<0, -1>>), (<<-1, 0>>), (<<0, 1>>), (<<1, 0>>)>>
OffsetOf(w) == Offsets[w + 1]

Xs == 0 .. (width - 1)
Ys == 0 .. (height - 1)
Cells == {<<x, y>> : x \in Xs, y \in Ys}

\* shuffle(wall_numbers_and_offsets) can produce every order of the four wall
\* numbers. A frame keeps the wall numbers its loop has not reached yet, and
\* each iteration takes any one of them: the shuffled order is revealed one
\* element at a time, which yields exactly the runs of shuffle-then-iterate.
WallNumbers == {0, 1, 2, 3}

\* wall_mask = 1 << w
WallMaskNext(w) == Pow2((w + 1) % 4)
WallMask(w) == Pow2(w)

\* opposite_wall_mask
OppositeWallMaskSwapped(w) ==
  IF WallMask(w) >= 4 THEN WallMask(w) * 4 ELSE WallMask(w) \div 4
OppositeWallMaskSame(w) == WallMask(w)
OppositeWallMask(w) ==
  IF WallMask(w) >= 4 THEN WallMask(w) \div 4 ELSE WallMask(w) * 4

\* the two bounds tests of the loop: the neighbour is skipped
OutOfGrid(i, j) == i < 0 \/ i >= width \/ j < 0 \/ j >= height

\* self.grid[y, x] = self.grid[y, x] & ~mask
ClearWallNot(g, x, y, mask) == g
ClearWall(g, x, y, mask) ==
  [g EXCEPT ![y][x] = BitAnd(g[y][x], BitNot(mask))]

\* numpy's index rule for an axis of length n
NpIndex(i, n) ==
  IF 0 <= i /\ i < n THEN i
  ELSE IF -n <= i /\ i < 0 THEN i + n
  ELSE -1

NpInRange(i, n) == -n <= i /\ i < n

\* Cell(x, y, bool(cell & 2), bool(cell & 8), bool(cell & 1), bool(cell & 4))
DecodeInOrder(x, y, cell) ==
  [x |-> x, y |-> y,
   left |-> BitAnd(cell, 1) # 0,
   right |-> BitAnd(cell, 4) # 0,
   top |-> BitAnd(cell, 2) # 0,
   bottom |-> BitAnd(cell, 8) # 0]
Decode(x, y, cell) ==
  [x |-> x, y |-> y,
   left |-> BitAnd(cell, 2) # 0,
   right |-> BitAnd(cell, 8) # 0,
   top |-> BitAnd(cell, 1) # 0,
   bottom |-> BitAnd(cell, 4) # 0]

\* Maze.cell_at on grid g: a Cell, or the IndexError of self.grid[y, x]
CellAtIn(g, x, y) ==
  IF NpInRange(y, height) /\ NpInRange(x, width)
  THEN [err |-> "none", cell |-> Decode(x, y, g[NpIndex(y, height)][NpIndex(x, width)])]
  ELSE [err |-> "IndexError", cell |-> Decode(x, y, 0)]

cell_at(x, y) == CellAtIn(grid, x, y).cell

\* no cell_at call yet
NoQuery == [x |-> 0, y |-> 0, res |-> [err |-> "nocall", cell |-> Decode(0, 0, 0)]]

\* Maze.__init__ once width and height are chosen: np.full and np.zeros
\* accept every shape of non-negative sizes, an empty one included
Fresh ==
  /\ grid = [y \in 0 .. (height - 1) |-> [x \in 0 .. (width - 1) |-> InitMask]]
  /\ visited = [y \in 0 .. (height - 1) |-> [x \in 0 .. (width - 1) |-> FALSE]]
  /\ stack = <<>>
  /\ phase = "constructed"
  /\ rerun = FALSE
  /\ carved = {}
  /\ entered = [y \in 0 .. (height - 1) |-> [x \in 0 .. (width - 1) |-> 0]]
  /\ revisit = FALSE
  /\ q = NoQuery

\* Maze.__init__, for a width in 1 .. W and a height in 1 .. H
Construct(W, H) ==
  /\ width \in 1 .. W
  /\ height \in 1 .. H
  /\ Fresh

\* Maze.__init__, for a width and a height of at least 1 and at most N cells
ConstructCells(N) ==
  /\ width \in 1 .. N
  /\ height \in 1 .. N
  /\ width * height <= N
  /\ Fresh

\* Maze.__init__, for a width in 0 .. W and a height in 0 .. H
ConstructAny(W, H) ==
  /\ width \in 0 .. W
  /\ height \in 0 .. H
  /\ Fresh

\* ------------------------------------------------------------------ floats
\* A float is modelled exactly: a finite value as an integer count v of units
\* of 1/Scale, or +inf, -inf or nan. The inputs are limited to values for
\* which every float operation of ray_cast is exact on these units.
Scale == Pow2(2)
Half == Scale \div 2

Fin(v) == [t |-> "fin", v |-> v]
PInf == [t |-> "pinf", v |-> 0]
NInf == [t |-> "ninf", v |-> 0]
NaN == [t |-> "nan", v |-> 0]

IsFinite(a) == a.t = "fin"

\* s * a for a sign s of 1 or -1
SignMul(s, a) ==
  IF a.t = "fin" THEN Fin(s * a.v)
  ELSE IF a.t = "nan" THEN NaN
  ELSE IF (a.t = "pinf") = (s > 0) THEN PInf ELSE NInf

\* a + b
AddKeep(a, b) == a
Add(a, b) ==
  IF a.t = "nan" \/ b.t = "nan" THEN NaN
  ELSE IF a.t = "fin" /\ b.t = "fin" THEN Fin(a.v + b.v)
  ELSE IF a.t = "fin" THEN b
  ELSE IF b.t = "fin" THEN a
  ELSE IF a.t = b.t THEN a ELSE NaN

\* a * f for a finite f
MulFin(a, f) ==
  IF a.t = "nan" THEN NaN
  ELSE IF a.t = "fin" THEN Fin((a.v * f) \div Scale)
  ELSE IF f = 0 THEN NaN
  ELSE IF (a.t = "pinf") = (f > 0) THEN PInf ELSE NInf

\* a <= b
Leq(a, b) ==
  /\ a.t # "nan"
  /\ b.t # "nan"
  /\ (a.t = "ninf" \/ b.t = "pinf" \/ (a.t = "fin" /\ b.t = "fin" /\ a.v <= b.v))

\* a >= n for an integer n
GeqInt(a, n) == a.t = "pinf" \/ (a.t = "fin" /\ a.v >= n * Scale)

\* math.floor(a) and round(a): an int, or the error Python raises
ToIntErr(a) == IF a.t = "nan" THEN "ValueError" ELSE IF a.t = "fin" THEN "none" ELSE "OverflowError"
Floor(a) == a.v \div Scale
RoundHalfEven(a) ==
  LET f == a.v \div Scale
      r == a.v % Scale
  IN  IF 2 * r < Scale THEN f
      ELSE IF 2 * r > Scale THEN f + 1
      ELSE IF f % 2 = 0 THEN f ELSE f + 1

\* math.ceil(v / Scale) and v / Scale % 1, for a finite v
CeilUnits(v) == -((-v) \div Scale)
Frac(v) == v % Scale

Abs(n) == IF n < 0 THEN -n ELSE n

\* dx / abs(dy) if dy != 0 else float('inf')
Inc(dx, dy) == IF dy # 0 THEN Fin((dx * Scale) \div Abs(dy)) ELSE PInf

\* the floats compute dx / abs(dy), dy / abs(dx) and their products with the
\* start point's fractional part without rounding
ExactInc(dx, dy) == dy = 0 \/ (dx * Scale) % (2 * Abs(dy)) = 0
ExactDir(dx, dy) == ExactInc(dx, dy) /\ ExactInc(dy, dx)

\* ------------------------------------------------------------------ ray_casting.py
\* 1 if d > 0 else -1
Sign(d) == IF d > 0 THEN 1 ELSE -1

\* s * np.inf
Inf(s) == IF s > 0 THEN PInf ELSE NInf

\* the fix-up of an intersection that is not all finite
Finite2(p, xs, ys) ==
  IF IsFinite(p[1]) /\ IsFinite(p[2]) THEN p ELSE <<Inf(xs), Inf(ys)>>

\* next_h_intersection and next_v_intersection before the loop
FirstH(x, y, dx, dy) ==
  Finite2(IF Sign(dy) > 0
          THEN <<Add(Fin(x), MulFin(Inc(dx, dy), Scale - Frac(y))), Fin(CeilUnits(y) * Scale)>>
          ELSE <<Add(Fin(x), MulFin(Inc(dx, dy), Frac(y))), Fin((y \div Scale) * Scale)>>,
          Sign(dx), Sign(dy))

FirstV(x, y, dx, dy) ==
  Finite2(IF Sign(dx) > 0
          THEN <<Fin(CeilUnits(x) * Scale), Add(Fin(y), MulFin(Inc(dy, dx), Scale - Frac(x)))>>
          ELSE <<Fin((x \div Scale) * Scale), Add(Fin(y), MulFin(Inc(dy, dx), Frac(x)))>>,
          Sign(dx), Sign(dy))

\* intersection[0] >= maze.width or intersection[1] >= maze.width
PastBoundsNever(p) == FALSE
PastBounds(p) == GeqInt(p[1], width) \/ GeqInt(p[2], width)

\* no ray_cast call yet
NoRay == [kind |-> "nocall", pt |-> <<NaN, NaN>>, iters |-> 0, trace |-> <<>>, cands |-> <<>>]

Outcome(kind, p, n, tr, cs) == [kind |-> kind, pt |-> p, iters |-> n, trace |-> tr, cands |-> cs]

\* the test of line 40 with the operands the other way round
HFirstStrict(nh, nv, xs, ys) ==
  /\ ~Leq(SignMul(xs, nv[1]), SignMul(xs, nh[1]))
  /\ ~Leq(SignMul(ys, nv[2]), SignMul(ys, nh[2]))

\* np.all(signs * next_h_intersection <= signs * next_v_intersection)
HFirst(nh, nv, xs, ys) ==
  /\ Leq(SignMul(xs, nh[1]), SignMul(xs, nv[1]))
  /\ Leq(SignMul(ys, nh[2]), SignMul(ys, nv[2]))

\* the while loop from its n-th iteration on; tr lists, for the iterations
\* before that called cell_at, the branch taken and the cell asked for; cs
\* lists, for every iteration before, next_h_intersection and
\* next_v_intersection at its start and the branch taken
RECURSIVE RayLoop(_, _, _, _, _, _, _)
RayLoop(nh, nv, dx, dy, n, tr, cs) ==
  LET xs == Sign(dx)
      ys == Sign(dy)
      h == HFirst(nh, nv, xs, ys)
      p == IF h THEN nh ELSE nv
      \* floor() of the coordinate along the line, round() of the one across it
      e1 == ToIntErr(p[1])
      e2 == ToIntErr(p[2])
      cx == IF h THEN Floor(p[1]) ELSE RoundHalfEven(p[1])
      cy == IF h THEN RoundHalfEven(p[2]) ELSE Floor(p[2])
      c == CellAtIn(grid, cx, cy)
      wall == IF h THEN c.cell.top ELSE c.cell.left
      step == [branch |-> IF h THEN "h" ELSE "v", x |-> cx, y |-> cy]
      cs2 == Append(cs, [h |-> nh, v |-> nv, branch |-> IF h THEN "h" ELSE "v"])
      nh2 == IF h THEN <<Add(p[1], Inc(dx, dy)), Add(p[2], Fin(ys * Scale))>> ELSE nh
      nv2 == IF h THEN nv ELSE <<Add(p[1], Fin(xs * Scale)), Add(p[2], Inc(dy, dx))>>
  IN  IF n >= MaxIter THEN Outcome("unfinished", p, n, tr, cs)
      ELSE IF PastBounds(p) THEN Outcome("hit", p, n + 1, tr, cs2)
      ELSE IF e1 # "none" THEN Outcome(e1, p, n + 1, tr, cs2)
      ELSE IF e2 # "none" THEN Outcome(e2, p, n + 1, tr, cs2)
      ELSE IF c.err # "none" THEN Outcome(c.err, p, n + 1, Append(tr, step), cs2)
      ELSE IF wall THEN Outcome("hit", p, n + 1, Append(tr, step), cs2)
      ELSE RayLoop(nh2, nv2, dx, dy, n + 1, Append(tr, step), cs2)

\* ray_cast(x, y, dx, dy, maze), x and y in units of 1/Scale
ray_cast(x, y, dx, dy) ==
  RayLoop(FirstH(x, y, dx, dy), FirstV(x, y, dx, dy), dx, dy, 0, <<>>, <<>>)

\* entry of _generate(x, y): self._visited[y, x] = True
MarkVisitedNot(vis, x, y) == vis
MarkVisited(vis, x, y) == [vis EXCEPT ![y][x] = TRUE]

\* the visited test of the loop: the neighbour is skipped
IsVisitedNever(i, j) == FALSE
IsVisited(i, j) == visited[j][i]

\* self.grid[:, :] = 15
ResetGridKeep(g) == g
ResetGridOpen(g) == [y \in Ys |-> [x \in Xs |-> 0]]
ResetGrid(g) == [y \in Ys |-> [x \in Xs |-> ResetMask]]

\* self._visited[:, :] = False
ResetVisited(vis) == [y \in Ys |-> [x \in Xs |-> FALSE]]

\* the grid has no cell: self._visited[0, 0] raises IndexError
EmptyGrid == ~(NpInRange(0, height) /\ NpInRange(0, width))

\* Maze.generate: reset, then enter _generate(0, 0). On a grid without cells
\* the two resets pass and the first statement of _generate(0, 0) raises
\* IndexError: the call ends in phase "failed".
Generate ==
  /\ phase # "generating"
  /\ grid' = ResetGrid(grid)
  /\ IF EmptyGrid
     THEN /\ visited' = ResetVisited(visited)
          /\ stack' = <<>>
          /\ entered' = entered
          /\ phase' = "failed"
     ELSE /\ visited' = MarkVisited(ResetVisited(visited), 0, 0)
          /\ stack' = <<[x |-> 0, y |-> 0, rest |-> WallNumbers]>>
          /\ entered' = [y \in Ys |-> [x \in Xs |-> IF x = 0 /\ y = 0 THEN 1 ELSE 0]]
          /\ phase' = "generating"
  /\ rerun' = (phase = "generated")
  /\ carved' = {}
  /\ revisit' = FALSE
  /\ q' = NoQuery
  /\ ray' = NoRay
  /\ UNCHANGED <<width, height, qarg, rarg, gameVars, iterVars, toolVars, droneVars, ttsVars>>

Top == stack[Len(stack)]
Pop == SubSeq(stack, 1, Len(stack) - 1)

\* the neighbour of (x, y) on side w
NeighbourX(x, w) == x + OffsetOf(w)[1]
NeighbourY(y, w) == y + OffsetOf(w)[2]

\* an iteration for wall number w of the loop of frame f hits neither continue
Carvable(f, w) ==
  /\ ~OutOfGrid(NeighbourX(f.x, w), NeighbourY(f.y, w))
  /\ ~IsVisited(NeighbourX(f.x, w), NeighbourY(f.y, w))

\* An iteration that hits a continue changes nothing but the loop position, and
\* a neighbour that is skipped once stays skipped for the rest of the run (the
\* grid bounds are fixed and visited marks are only set). So the iterations
\* that continue are folded into the step that follows them: a frame's rest
\* is the set of wall numbers its loop has not recursed into.

\* the remaining iterations of the innermost _generate all continue: the loop
\* ends and the call returns to its caller's loop, or to generate()
Return ==
  /\ phase = "generating"
  /\ \A w \in Top.rest : ~Carvable(Top, w)
  /\ stack' = Pop
  /\ phase' = IF Len(stack) = 1 THEN "generated" ELSE "generating"
  /\ UNCHANGED <<width, height, grid, visited, rerun, carved, entered, revisit, qarg, q, rarg, ray, gameVars, iterVars, toolVars, droneVars, ttsVars>>

\* the loop reaches an iteration that removes the wall on both sides and
\* recurses into the neighbour
Carve ==
  /\ phase = "generating"
  /\ \E w \in Top.rest :
       LET x == Top.x
           y == Top.y
           i == NeighbourX(x, w)
           j == NeighbourY(y, w)
       IN  /\ Carvable(Top, w)
           /\ grid' = ClearWall(ClearWall(grid, x, y, WallMask(w)), i, j, OppositeWallMask(w))
           /\ carved' = carved \cup {{<<x, y>>, <<i, j>>}}
           /\ revisit' = (revisit \/ visited[j][i])
           /\ entered' = [entered EXCEPT ![j][i] = @ + 1]
           /\ visited' = MarkVisited(visited, i, j)
           /\ stack' = Append([stack EXCEPT ![Len(stack)] = [@ EXCEPT !.rest = @ \ {w}]],
                              [x |-> i, y |-> j, rest |-> WallNumbers])
  /\ UNCHANGED <<width, height, phase, rerun, qarg, q, rarg, ray, gameVars, iterVars, toolVars, droneVars, ttsVars>>

\* a caller asks for the cell at qarg, between generate() calls
Query ==
  /\ phase # "generating"
  /\ q' = [x |-> qarg[1], y |-> qarg[2], res |-> CellAtIn(grid, qarg[1], qarg[2])]
  /\ UNCHANGED <<mazeVars, qarg, rarg, ray, gameVars, iterVars, toolVars, droneVars, ttsVars>>

\* Maze.__iter__: the outer generator expression is created, with
\* range(self.height) evaluated; its variable y is unbound until the first next()
MazeIter ==
  /\ phase # "generating"
  /\ outer.state # "open"
  /\ outer' = [state |-> "open", y |-> -1]
  /\ rows' = <<>>
  /\ UNCHANGED <<mazeVars, qarg, q, rarg, ray, gameVars, toolVars, droneVars, ttsVars>>

\* next() on the outer generator: y takes its next value and a row generator
\* (self.cell_at(x, y) for x in range(self.width)) is created and yielded, or
\* the range is used up and the generator ends, y keeping its last value
NextRow ==
  /\ phase # "generating"
  /\ outer.state = "open"
  /\ IF outer.y + 1 < height
     THEN /\ outer' = [outer EXCEPT !.y = @ + 1]
          /\ rows' = Append(rows, [x |-> 0, calls |-> <<>>])
     ELSE /\ outer' = [outer EXCEPT !.state = "done"]
          /\ rows' = rows
  /\ UNCHANGED <<mazeVars, qarg, q, rarg, ray, gameVars, toolVars, droneVars, ttsVars>>

\* the y a row generator passes to cell_at: y is a free variable of the inner
\* generator expression, a cell of the outer generator's frame that is read
\* when the element is produced, not when the row generator was created
RowY(r) == outer.y

\* next() on the r-th row generator yielded: it calls cell_at(x, y) for its
\* next x
NextCell ==
  /\ phase # "generating"
  /\ \E r \in 1 .. Len(rows) :
       /\ rows[r].x < width
       /\ rows' = [rows EXCEPT ![r] = [x |-> @.x + 1,
                                       calls |-> Append(@.calls, <<@.x, RowY(r)>>)]]
  /\ UNCHANGED <<mazeVars, qarg, q, rarg, ray, gameVars, outer, toolVars, droneVars, ttsVars>>

\* a caller casts the ray rarg, between generate() calls
RayCast ==
  /\ phase # "generating"
  /\ ray' = ray_cast(rarg.x, rarg.y, rarg.dx, rarg.dy)
  /\ UNCHANGED <<mazeVars, qarg, q, rarg, gameVars, iterVars, toolVars, droneVars, ttsVars>>

\* no Game object yet
NoPlayer == [x |-> 0, y |-> 0, x_velocity |-> 0, y_velocity |-> 0, width |-> 0, height |-> 0]
NoGame == player = NoPlayer /\ op = "none"

\* no iteration of the maze yet
NoIter == outer = [state |-> "none", y |-> 0] /\ rows = <<>>

\* no BreadcrumbTool yet
NoCell == Decode(0, 0, 0)
NoTool ==
  /\ breadcrumbs = <<>>
  /\ tool_last_cell = NoCell
  /\ tool = "none"
  /\ placed = <<>>
  /\ seen = <<>>
  /\ spoken = <<>>

\* no generator yet
NoCoroutine ==
  [st |-> "none", id |-> 0, direction |-> 0, pos |-> <<0, 0>>, cell |-> NoCell, first |-> NoCell]

\* no HallwayCheckTool yet
NoHallwayTool ==
  /\ coroutine = NoCoroutine
  /\ running = FALSE
  /\ starts = 0
  /\ hop = "none"
  /\ queued = <<>>
  /\ advanced = 0

\* no text
NoText == <<>>

\* TTSThread.__init__: an empty queue, the event clear, the thread not started
NoThread ==
  /\ in_queue = <<>>
  /\ terminate_event = FALSE
  /\ tts_pc = "new"
  /\ tts_text = NoText
  /\ engine_pending = <<>>
  /\ engine_log = <<>>
  /\ said = <<>>

NoArgs ==
  /\ qarg = <<0, 0>>
  /\ rarg = [x |-> 0, y |-> 0, dx |-> 0, dy |-> 0]
  /\ ray = NoRay
  /\ NoGame
  /\ NoIter
  /\ NoTool
  /\ NoHallwayTool
  /\ NoThread

\* ------------------------------------------------------------------ game.py
\* Player coordinates and sizes are floats; they are modelled exactly, as whole
\* numbers of units of 1/GScale of a cell. A velocity is a number of units per
\* tick and dt a number of ticks: the calls are limited to those for which
\* velocity * dt is a whole number of units.
GScale == Pow2(3)

\* Game.player_move_speed: 5.0 cells per second is 1 unit per tick for a tick
\* of 1 / (5 * GScale) seconds
player_move_speed == 1

\* Player.__init__
Player(x, y, w, h) ==
  [x |-> x, y |-> y, x_velocity |-> 0, y_velocity |-> 0, width |-> w, height |-> h]

\* .astype(np.int32) of a / b: the fraction is cut off, towards zero
TruncDiv(a, b) == IF a >= 0 THEN a \div b ELSE -((-a) \div b)

\* Player.center().astype(np.int32), from x + width / 2 in half units
CenterCellX(p) == TruncDiv(2 * p.x + p.width, 2 * GScale)
CenterCellY(p) == TruncDiv(2 * p.y + p.height, 2 * GScale)

\* Game.current_cell for player p: a Cell, or the IndexError of cell_at
current_cell(p) == CellAtIn(grid, CenterCellX(p), CenterCellY(p))

\* Player.set_velocity
set_velocity(p, vx, vy) == [p EXCEPT !.x_velocity = vx, !.y_velocity = vy]

\* Player.update
PlayerUpdate(p, dt) ==
  [p EXCEPT !.x = @ + p.x_velocity * dt, !.y = @ + p.y_velocity * dt]

\* the if / elif on the x axis of Game.update, for the moved player p and
\* last_cell c
ClampXNone(p, c) == p.x
ClampXNewCell(p, c) ==
  IF current_cell(p).cell.left /\ p.x < CenterCellX(p) * GScale THEN CenterCellX(p) * GScale
  ELSE IF current_cell(p).cell.right /\ p.x + p.width >= (CenterCellX(p) + 1) * GScale
       THEN (CenterCellX(p) + 1) * GScale - p.width
  ELSE p.x
ClampX(p, c) ==
  IF c.left /\ p.x < c.x * GScale THEN c.x * GScale
  ELSE IF c.right /\ p.x + p.width >= (c.x + 1) * GScale THEN (c.x + 1) * GScale - p.width
  ELSE p.x

\* the if / elif on the y axis
ClampYNone(p, c) == p.y
ClampY(p, c) ==
  IF c.top /\ p.y < c.y * GScale THEN c.y * GScale
  ELSE IF c.bottom /\ p.y + p.height >= (c.y + 1) * GScale THEN (c.y + 1) * GScale - p.height
  ELSE p.y

\* the collision part of Game.update: only x and y are assigned
CollideStop(p, c) ==
  [p EXCEPT !.x = ClampX(p, c), !.y = ClampY(p, c),
            !.x_velocity = IF ClampX(p, c) # p.x THEN 0 ELSE @,
            !.y_velocity = IF ClampY(p, c) # p.y THEN 0 ELSE @]
Collide(p, c) == [p EXCEPT !.x = ClampX(p, c), !.y = ClampY(p, c)]

\* Game.__init__: the player is a 0.5 x 0.5 rectangle centred in a random cell
NewGame ==
  /\ op = "none"
  /\ phase = "generated"
  /\ \E cx \in Xs, cy \in Ys :
       player' = Player(cx * GScale + GScale \div 4, cy * GScale + GScale \div 4,
                        GScale \div 2, GScale \div 2)
  /\ op' = "Game"
  /\ UNCHANGED <<mazeVars, qarg, q, rarg, ray, iterVars, toolVars, droneVars, ttsVars>>

\* Player.set_velocity called on the game's player
SetVelocity ==
  /\ op # "none"
  /\ phase # "generating"
  /\ \E vx \in -MaxVel .. MaxVel, vy \in -MaxVel .. MaxVel :
       player' = set_velocity(player, vx, vy)
  /\ op' = "set_velocity"
  /\ UNCHANGED <<mazeVars, qarg, q, rarg, ray, iterVars, toolVars, droneVars, ttsVars>>

\* Game.set_player_move_direction, with directions of -1, 0 or 1
SetPlayerMoveDirection ==
  /\ op # "none"
  /\ phase # "generating"
  /\ \E x_direction \in {-1, 0, 1}, y_direction \in {-1, 0, 1} :
       player' = set_velocity(player, x_direction * player_move_speed,
                              y_direction * player_move_speed)
  /\ op' = "set_player_move_direction"
  /\ UNCHANGED <<mazeVars, qarg, q, rarg, ray, iterVars, toolVars, droneVars, ttsVars>>

\* Game.update(dt) for player p: the player and how the call ended. If
\* current_cell() raises, the call ends before the player is moved.
update(p, dt) ==
  LET last_cell == current_cell(p)
      moved == PlayerUpdate(p, dt)
      clamped == Collide(moved, last_cell.cell)
  IN  IF last_cell.err # "none" THEN [player |-> p, op |-> "update_failed"]
      ELSE [player |-> clamped,
            op |-> IF clamped.x = moved.x /\ clamped.y = moved.y
                   THEN "update" ELSE "update_clamped"]

\* Game.update(dt) with any dt of 0 .. MaxDt ticks
Update ==
  /\ op # "none"
  /\ phase # "generating"
  /\ \E dt \in 0 .. MaxDt :
       /\ player' = update(player, dt).player
       /\ op' = update(player, dt).op
  /\ UNCHANGED <<mazeVars, qarg, q, rarg, ray, iterVars, toolVars, droneVars, ttsVars>>

\* Game.update(dt) with a dt of 0 .. MaxDt ticks for which the step on each
\* axis, |velocity * dt|, is less than n units
UpdateBelow(n) ==
  /\ op # "none"
  /\ phase # "generating"
  /\ \E dt \in 0 .. MaxDt :
       /\ Abs(player.x_velocity * dt) < n
       /\ Abs(player.y_velocity * dt) < n
       /\ player' = update(player, dt).player
       /\ op' = update(player, dt).op
  /\ UNCHANGED <<mazeVars, qarg, q, rarg, ray, iterVars, toolVars, droneVars, ttsVars>>

\* Game.update(dt) with a step of less than one cell on each axis
UpdateCell == UpdateBelow(GScale)

\* Game.update(dt) with a step of less than half the size of the player that
\* Game.__init__ makes on each axis
UpdateHalf == UpdateBelow(GScale \div 4)

\* ------------------------------------------------------------------ vision_tools.py
\* str(n) for n >= 0: the decimal digits of n
RECURSIVE Str(_)
Str(n) == IF n < 10 THEN <<n>> ELSE Append(Str(n \div 10), n % 10)

\* len(self.breadcrumbs)
LenOf(b) == Cardinality(DOMAIN b)

\* self.breadcrumbs[cell] = len(self.breadcrumbs)
Mark(b, cell) == [c \in DOMAIN b \cup {cell} |-> IF c = cell THEN LenOf(b) ELSE b[c]]

\* BreadcrumbTool.__init__
NewTool ==
  /\ op # "none"
  /\ phase # "generating"
  /\ tool = "none"
  /\ current_cell(player).err = "none"
  /\ breadcrumbs' = <<>>
  /\ tool_last_cell' = current_cell(player).cell
  /\ tool' = "init"
  /\ UNCHANGED <<mazeVars, qarg, q, rarg, ray, gameVars, iterVars, placed, seen, spoken, droneVars, ttsVars>>

\* BreadcrumbTool.on_key_press, for the key E and for another key. Another
\* key returns at once, and an IndexError of current_cell() ends the call
\* before anything is assigned.
KeyPress ==
  /\ tool # "none"
  /\ phase # "generating"
  /\ \E symbol \in {"E", "other"} :
       LET cell == current_cell(player)
       IN  IF symbol # "E" \/ cell.err # "none"
           THEN UNCHANGED <<breadcrumbs, placed, tool, spoken>>
           ELSE IF cell.cell \notin DOMAIN breadcrumbs
           THEN /\ breadcrumbs' = Mark(breadcrumbs, cell.cell)
                /\ spoken' = <<Str(LenOf(Mark(breadcrumbs, cell.cell)) - 1)>>
                /\ placed' = Append(placed, cell.cell)
                /\ tool' = "key"
           ELSE /\ spoken' = <<Str(breadcrumbs[cell.cell])>>
                /\ tool' = "key"
                /\ UNCHANGED <<breadcrumbs, placed>>
  /\ UNCHANGED <<mazeVars, qarg, q, rarg, ray, gameVars, iterVars, tool_last_cell, seen, droneVars, ttsVars>>

\* the say() calls of BreadcrumbTool.update for next_cell
SaysNothing(next_cell) == <<>>
Says(next_cell) ==
  IF next_cell \in DOMAIN breadcrumbs THEN <<Str(breadcrumbs[next_cell])>> ELSE <<>>

\* the dt of a clock tick. The clock passes the time that has elapsed, the
\* interval of 1/30 s or more; here it is the time in which the player moves
\* half a cell.
TickDt == GScale \div 2

\* update(dt) of run_main_game, the callback of the clock: the direction keys
\* give the move direction, the game is updated and then the vision tool, here
\* BreadcrumbTool.update. An IndexError of current_cell() ends the callback
\* where it is raised.
Tick ==
  /\ tool # "none"
  /\ phase # "generating"
  /\ \E x_direction \in {-1, 0, 1}, y_direction \in {-1, 0, 1} :
       \E r \in {update(set_velocity(player, x_direction * player_move_speed,
                                     y_direction * player_move_speed), TickDt)} :
       \E next_cell \in {current_cell(r.player)} :
           /\ player' = r.player
           /\ op' = r.op
           /\ IF r.op = "update_failed" \/ next_cell.err # "none"
              THEN UNCHANGED <<tool, spoken, tool_last_cell, seen>>
              ELSE IF next_cell.cell = tool_last_cell
              THEN /\ tool' = "update"
                   /\ spoken' = <<>>
                   /\ seen' = <<next_cell.cell>>
                   /\ UNCHANGED tool_last_cell
              ELSE /\ tool' = "update"
                   /\ spoken' = Says(next_cell.cell)
                   /\ tool_last_cell' = next_cell.cell
                   /\ seen' = <<next_cell.cell>>
  /\ UNCHANGED <<mazeVars, qarg, q, rarg, ray, iterVars, breadcrumbs, placed, droneVars, ttsVars>>

\* ---- HallwayCheckTool
\* The position of a drone is a pair of floats; it is modelled exactly, as
\* whole numbers of units of 1/DScale of a cell. dt is a number of ticks of
\* 1 / (cells_per_second * DScale) seconds, in which a drone moves one unit.
DScale == Pow2(2)

\* Cell.walls: (left, top, right, bottom), indexed from 0
Walls(c) == <<c.left, c.top, c.right, c.bottom>>
WallAtClockwise(c, direction) == Walls(c)[((direction + 1) % 4) + 1]
WallAt(c, direction) == Walls(c)[direction + 1]

\* velocity, in cells per second divided by cells_per_second
VelocityX(direction) == IF direction % 2 = 0 THEN direction - 1 ELSE 0
VelocityY(direction) == IF direction % 2 = 0 THEN 0 ELSE direction - 2

\* self.game.maze.cell_at(*position.astype(np.int32))
DroneCell(pos) == CellAtIn(grid, TruncDiv(pos[1], DScale), TruncDiv(pos[2], DScale))

\* the sounds queued when the drone enters next_cell
TurningSounds(next_cell, direction) ==
  LET anti_clockwise_wall == WallAt(next_cell, (direction - 1) % 4)
      clockwise_wall == WallAt(next_cell, (direction + 1) % 4)
  IN  (IF ~anti_clockwise_wall THEN <<"anticlockwise">> ELSE <<>>)
        \o (IF ~clockwise_wall THEN <<"clockwise">> ELSE <<>>)
        \o (IF anti_clockwise_wall /\ clockwise_wall THEN <<"null">> ELSE <<>>)

\* the sounds snd, as queued by generator id
By(id, snd) == [n \in 1 .. Len(snd) |-> [id |-> id, sound |-> snd[n]]]

\* np.floor([self.game.player.x, self.game.player.y]), in drone units
StartPosition(p) == <<(p.x \div GScale) * DScale, (p.y \div GScale) * DScale>>

\* next() on a new generator: hallway_check_coroutine runs from its start to
\* the first yield, to its end, or to the IndexError of cell_at
Begin(id, direction) ==
  LET position == StartPosition(player)
      cell == DroneCell(position)
      frame == [st |-> "suspended", id |-> id, direction |-> direction, pos |-> position,
                cell |-> cell.cell, first |-> cell.cell]
  IN  IF cell.err # "none"
      THEN [gen |-> [frame EXCEPT !.st = "raised"], snd |-> <<>>]
      ELSE IF WallAt(cell.cell, direction)
      THEN [gen |-> [frame EXCEPT !.st = "finished"], snd |-> <<"stop">>]
      ELSE [gen |-> frame, snd |-> <<>>]

\* send(dt) on the suspended generator g: from the yield to the next yield,
\* to the end, or to the IndexError of cell_at
Resume(g, dt) ==
  LET position == <<g.pos[1] + VelocityX(g.direction) * dt,
                    g.pos[2] + VelocityY(g.direction) * dt>>
      next_cell == DroneCell(position)
      moved == [g EXCEPT !.pos = position]
      entered_cell == [moved EXCEPT !.cell = next_cell.cell]
  IN  IF next_cell.err # "none"
      THEN [gen |-> [moved EXCEPT !.st = "raised"], snd |-> <<>>]
      ELSE IF next_cell.cell = g.cell
      THEN [gen |-> moved, snd |-> <<>>]
      ELSE IF WallAt(next_cell.cell, g.direction)
      THEN [gen |-> [entered_cell EXCEPT !.st = "finished"],
            snd |-> TurningSounds(next_cell.cell, g.direction) \o <<"stop">>]
      ELSE [gen |-> entered_cell, snd |-> TurningSounds(next_cell.cell, g.direction)]

\* HallwayCheckTool.__init__
NewHallwayTool ==
  /\ op # "none"
  /\ hop = "none"
  /\ coroutine' = NoCoroutine
  /\ running' = FALSE
  /\ hop' = "init"
  /\ queued' = <<>>
  /\ advanced' = 0
  /\ UNCHANGED <<mazeVars, qarg, q, rarg, ray, gameVars, iterVars, toolVars, starts, ttsVars>>

\* self._coroutine_running = self.hallway_check_coroutine(...): the attribute
\* refers to the new generator, not to the one it held
Assigned(old, new) == new

\* HallwayCheckTool.start_hallway_check(direction), as on_key_press calls it
\* for the arrow keys: a generator still referred to is closed (it ends at its
\* yield and is referred to no more), a new one is made and run to its first
\* yield. StopIteration is caught; an IndexError leaves the call.
StartHallwayCheck ==
  /\ hop # "none"
  /\ phase # "generating"
  /\ starts < MaxStarts
  /\ \E direction \in 0 .. 3 :
       \E r \in {Begin(starts + 1, direction)} :
           /\ coroutine' = Assigned(coroutine, r.gen)
           /\ queued' = By(starts + 1, r.snd)
           /\ hop' = IF r.gen.st = "raised" THEN "start_failed" ELSE "start"
  /\ running' = TRUE
  /\ starts' = starts + 1
  /\ advanced' = starts + 1
  /\ UNCHANGED <<mazeVars, qarg, q, rarg, ray, gameVars, iterVars, toolVars, ttsVars>>

\* HallwayCheckTool.update(dt) for a dt of dts: nothing if _coroutine_running
\* is None; send(dt) on a generator that has ended raises StopIteration at
\* once, and so does one that ends in this call: _coroutine_running = None
UpdateHallway(dts) ==
  /\ hop # "none"
  /\ phase # "generating"
  /\ \E dt \in dts :
       IF ~running
       THEN /\ hop' = "update"
            /\ queued' = <<>>
            /\ advanced' = 0
            /\ UNCHANGED <<coroutine, running>>
       ELSE IF coroutine.st # "suspended"
       THEN /\ hop' = "update"
            /\ running' = FALSE
            /\ queued' = <<>>
            /\ advanced' = 0
            /\ UNCHANGED coroutine
       ELSE \E r \in {Resume(coroutine, dt)} :
                /\ coroutine' = r.gen
                /\ queued' = By(coroutine.id, r.snd)
                /\ advanced' = coroutine.id
                /\ running' = (r.gen.st # "finished")
                /\ hop' = IF r.gen.st = "raised" THEN "update_failed" ELSE "update"
  /\ UNCHANGED <<mazeVars, qarg, q, rarg, ray, gameVars, iterVars, toolVars, starts, ttsVars>>

\* update(dt) with dt > 0 and a drone step of less than one cell
HallwayUpdate == UpdateHallway(1 .. (DScale - 1))

\* update(dt) with dt > 0 and a drone step of up to MaxDroneStep units
HallwayUpdateAny == UpdateHallway(1 .. MaxDroneStep)

\* ------------------------------------------------------------------ tts.py
\* the texts passed to say(): the numbers a BreadcrumbTool says
Texts == {Str(0), Str(1)}

\* queue.Queue.get: the item taken, and the items left
DequeueLast(qu) == [item |-> qu[Len(qu)], rest |-> SubSeq(qu, 1, Len(qu) - 1)]
Dequeue(qu) == [item |-> Head(qu), rest |-> Tail(qu)]

\* TTSThread.say(text), from any other thread: self._in_queue.put(text)
TtsSay ==
  /\ Len(said) < MaxSay
  /\ \E text \in Texts :
       /\ in_queue' = Append(in_queue, text)
       /\ said' = Append(said, text)
  /\ UNCHANGED <<mazeVars, qarg, q, rarg, ray, gameVars, iterVars, toolVars, droneVars,
                 terminate_event, tts_pc, tts_text, engine_pending, engine_log>>

\* TTSThread.terminate(), from any other thread
TtsTerminate ==
  /\ ~terminate_event
  /\ terminate_event' = TRUE
  /\ UNCHANGED <<mazeVars, qarg, q, rarg, ray, gameVars, iterVars, toolVars, droneVars,
                 in_queue, tts_pc, tts_text, engine_pending, engine_log, said>>

\* start(): the thread enters run()
TtsStart ==
  /\ tts_pc = "new"
  /\ tts_pc' = "test"
  /\ UNCHANGED <<mazeVars, qarg, q, rarg, ray, gameVars, iterVars, toolVars, droneVars,
                 in_queue, terminate_event, tts_text, engine_pending, engine_log, said>>

\* while not self._terminate_event.is_set()
TtsTest ==
  /\ tts_pc = "test"
  /\ tts_pc' = IF terminate_event THEN "done" ELSE "get"
  /\ UNCHANGED <<mazeVars, qarg, q, rarg, ray, gameVars, iterVars, toolVars, droneVars,
                 in_queue, terminate_event, tts_text, engine_pending, engine_log, said>>

\* text = self._in_queue.get(timeout=1.0) returns an item
TtsGet ==
  /\ tts_pc = "get"
  /\ in_queue # <<>>
  /\ tts_text' = Dequeue(in_queue).item
  /\ in_queue' = Dequeue(in_queue).rest
  /\ tts_pc' = "say"
  /\ UNCHANGED <<mazeVars, qarg, q, rarg, ray, gameVars, iterVars, toolVars, droneVars,
                 terminate_event, engine_pending, engine_log, said>>

\* the queue stays empty for the timeout: queue.Empty, continue
TtsTimeout ==
  /\ tts_pc = "get"
  /\ in_queue = <<>>
  /\ tts_pc' = "test"
  /\ UNCHANGED <<mazeVars, qarg, q, rarg, ray, gameVars, iterVars, toolVars, droneVars,
                 in_queue, terminate_event, tts_text, engine_pending, engine_log, said>>

\* self.engine.say(text): the utterance is queued in the engine
TtsEngineSay ==
  /\ tts_pc = "say"
  /\ engine_pending' = Append(engine_pending, tts_text)
  /\ tts_pc' = "wait"
  /\ UNCHANGED <<mazeVars, qarg, q, rarg, ray, gameVars, iterVars, toolVars, droneVars,
                 in_queue, terminate_event, tts_text, engine_log, said>>

\* self.engine.runAndWait(): the engine speaks what it has queued and returns
TtsRunAndWait ==
  /\ tts_pc = "wait"
  /\ engine_log' = engine_log \o engine_pending
  /\ engine_pending' = <<>>
  /\ tts_pc' = "test"
  /\ UNCHANGED <<mazeVars, qarg, q, rarg, ray, gameVars, iterVars, toolVars, droneVars,
                 in_queue, terminate_event, tts_text, said>>

\* a step of the thread in run()
TtsRun == TtsTest \/ TtsGet \/ TtsTimeout \/ TtsEngineSay \/ TtsRunAndWait

\* main(): the maze is generated before the Game is made, and not again
GenerateFirst == op = "none" /\ Generate

Init == Construct(MaxW, MaxH) /\ NoArgs

Next == Generate \/ Return \/ Carve

Spec == Init /\ [][Next]_vars

\* generate() runs to completion once called: a running call always takes its
\* next step. Whether generate() is called at all is up to the caller.
FairSpec == Spec /\ WF_vars(Return \/ Carve)

\* the maze of any size numpy accepts, a width or height of 0 included
InitAny == ConstructAny(MaxW, MaxH) /\ NoArgs

SpecAny == InitAny /\ [][Next]_vars

\* the maze with a caller's cell query
InitCellAt ==
  /\ Construct(MaxW, MaxH)
  /\ qarg \in (-MaxCoord .. MaxCoord) \X (-MaxCoord .. MaxCoord)
  /\ rarg = [x |-> 0, y |-> 0, dx |-> 0, dy |-> 0]
  /\ ray = NoRay
  /\ NoGame
  /\ NoIter
  /\ NoTool
  /\ NoHallwayTool
  /\ NoThread

NextCellAt == Generate \/ Return \/ Carve \/ Query

SpecCellAt == InitCellAt /\ [][NextCellAt]_vars

\* the maze with a caller's ray cast: the start point is in the maze, at a
\* multiple of one half, and the direction is one that floats divide exactly
InitRay ==
  /\ Construct(RayMaxW, RayMaxH)
  /\ qarg = <<0, 0>>
  /\ rarg \in {a \in [x : {k * Half : k \in 0 .. (2 * width - 1)},
                     y : {k * Half : k \in 0 .. (2 * height - 1)},
                     dx : -MaxDir .. MaxDir,
                     dy : -MaxDir .. MaxDir] : ExactDir(a.dx, a.dy)}
  /\ ray = NoRay
  /\ NoGame
  /\ NoIter
  /\ NoTool
  /\ NoHallwayTool
  /\ NoThread

NextRay == Generate \/ Return \/ Carve \/ RayCast

SpecRay == InitRay /\ [][NextRay]_vars

\* the maze and an iteration over it
InitIter == Construct(IterMaxW, IterMaxH) /\ NoArgs

NextIter == Generate \/ Return \/ Carve \/ MazeIter \/ NextRow \/ NextCell

SpecIter == InitIter /\ [][NextIter]_vars

\* the sizes of the Player in the box: 0, 1/4, 1/2, 3/4 and 1 cell
BoxSizes == {k * (GScale \div 4) : k \in 0 .. 4}

\* a Player of one of these sizes, anywhere inside the one cell of a
\* Maze(1, 1), which has all its walls
InitBox ==
  /\ Construct(1, 1)
  /\ qarg = <<0, 0>>
  /\ rarg = [x |-> 0, y |-> 0, dx |-> 0, dy |-> 0]
  /\ ray = NoRay
  /\ player \in {Player(a[1], a[2], a[3], a[4]) :
                   a \in {b \in (0 .. GScale) \X (0 .. GScale) \X BoxSizes \X BoxSizes :
                             b[1] + b[3] <= GScale /\ b[2] + b[4] <= GScale}}
  /\ op = "Player"
  /\ NoIter
  /\ NoTool
  /\ NoHallwayTool
  /\ NoThread

NextBox == SetVelocity \/ Update

SpecBox == InitBox /\ [][NextBox]_vars

\* a Game on a generated maze
InitGame == ConstructCells(GameMaxCells) /\ NoArgs

NextGame ==
  GenerateFirst \/ Return \/ Carve \/ NewGame \/ SetPlayerMoveDirection \/ Update

SpecGame == InitGame /\ [][NextGame]_vars

\* a Game on a generated maze, updated in steps of less than a cell
NextWalk ==
  GenerateFirst \/ Return \/ Carve \/ NewGame \/ SetPlayerMoveDirection \/ UpdateCell

SpecWalk == InitGame /\ [][NextWalk]_vars

\* a Game on a generated maze, updated in steps of less than half the player
NextCreep ==
  GenerateFirst \/ Return \/ Carve \/ NewGame \/ SetPlayerMoveDirection \/ UpdateHalf

SpecCreep == InitGame /\ [][NextCreep]_vars

\* a Game on a generated maze with a HallwayCheckTool, the player standing
\* where Game.__init__ put it: a generator reads the player only when started
InitDrone == ConstructCells(DroneMaxCells) /\ NoArgs

NextDrone ==
  GenerateFirst \/ Return \/ Carve \/ NewGame \/ NewHallwayTool \/ StartHallwayCheck
    \/ HallwayUpdate

SpecDrone == InitDrone /\ [][NextDrone]_vars

\* update(dt) is called again and again
FairDrone == SpecDrone /\ WF_vars(HallwayUpdate)

\* the same with update steps of a cell and more
NextDroneAny ==
  GenerateFirst \/ Return \/ Carve \/ NewGame \/ NewHallwayTool \/ StartHallwayCheck
    \/ HallwayUpdateAny

SpecDroneAny == InitDrone /\ [][NextDroneAny]_vars

\* a Game on a generated maze with a HallwayCheckTool whose drones are started
\* while the player walks
NextStart ==
  GenerateFirst \/ Return \/ Carve \/ NewGame \/ SetPlayerMoveDirection \/ UpdateHalf
    \/ NewHallwayTool \/ StartHallwayCheck

InitStart == ConstructCells(StartMaxCells) /\ NoArgs

SpecStart == InitStart /\ [][NextStart]_vars

\* a TTSThread and the threads that call say() and terminate()
InitTts == Construct(1, 1) /\ NoArgs

NextTts ==
  TtsSay \/ TtsTerminate \/ TtsStart \/ TtsTest \/ TtsGet \/ TtsTimeout \/ TtsEngineSay
    \/ TtsRunAndWait

SpecTts == InitTts /\ [][NextTts]_vars

\* a started thread is scheduled again and again
FairTts == SpecTts /\ WF_vars(TtsRun)

\* a Game on a generated maze with a BreadcrumbTool
InitCrumbs == ConstructCells(CrumbMaxCells) /\ NoArgs

NextCrumbs ==
  GenerateFirst \/ Return \/ Carve \/ NewGame \/ NewTool \/ KeyPress \/ Tick

SpecCrumbs == InitCrumbs /\ [][NextCrumbs]_vars

\* ------------------------------------------------------------------ maze claims
\* cells (x, y) with a right / a lower neighbour in the grid
HasRight == {c \in Cells : c[1] + 1 < width}
HasBelow == {c \in Cells : c[2] + 1 < height}

\* the wall between a cell and its right / lower neighbour is gone on both sides
OpenH(c) == ~cell_at(c[1], c[2]).right /\ ~cell_at(c[1] + 1, c[2]).left
OpenV(c) == ~cell_at(c[1], c[2]).bottom /\ ~cell_at(c[1], c[2] + 1).top

OpenPairs ==
  {{c, <<c[1] + 1, c[2]>>} : c \in {d \in HasRight : OpenH(d)}}
    \cup {{c, <<c[1], c[2] + 1>>} : c \in {d \in HasBelow : OpenV(d)}}

\* the cells reachable from the cells S through the pairs P
RECURSIVE Reach(_, _)
Reach(P, S) ==
  LET T == S \cup {c \in Cells : \E d \in S : {c, d} \in P}
  IN  IF T = S THEN S ELSE Reach(P, T)

SpanningTree ==
  LET P == OpenPairs
  IN  /\ Cardinality(P) = width * height - 1
      /\ \A c \in Cells : Reach(P, {c}) = Cells

VisitedCells == {c \in Cells : visited[c[2]][c[1]]}
EnteredCells == {c \in Cells : entered[c[2]][c[1]] >= 1}

\* C1: when generate() returns, exactly width*height - 1 adjacent cell pairs
\* have their shared wall cleared and every cell reaches every other cell
\* through open walls: the open walls form a spanning tree of the grid.
C1_SpanningTree == phase = "generated" => SpanningTree

C1_Witness == phase = "generated" /\ width = MaxW /\ height = MaxH

\* C2: after construction and after every carving step, every two adjacent
\* cells agree on their shared wall: a.right = b.left and a.bottom = b.top.
C2_WallSymmetry ==
  /\ \A c \in HasRight : cell_at(c[1], c[2]).right = cell_at(c[1] + 1, c[2]).left
  /\ \A c \in HasBelow : cell_at(c[1], c[2]).bottom = cell_at(c[1], c[2] + 1).top

C2_Witness ==
  /\ phase = "generating"
  /\ \E c \in HasRight : OpenH(c)
  /\ \E c \in HasBelow : OpenV(c)

\* C3: in every state reached by construction and any number of generate()
\* calls, every cell on the grid edge has a wall on each side facing outside.
C3_BoundaryWalls ==
  \A c \in Cells :
    /\ (c[1] = 0 => cell_at(c[1], c[2]).left)
    /\ (c[1] = width - 1 => cell_at(c[1], c[2]).right)
    /\ (c[2] = 0 => cell_at(c[1], c[2]).top)
    /\ (c[2] = height - 1 => cell_at(c[1], c[2]).bottom)

C3_Witness == phase = "generated" /\ rerun /\ width = MaxW /\ height = MaxH

\* C4: a generate() call on a maze that was already generated starts from all
\* walls and no visited mark: throughout that run the cleared wall pairs are
\* exactly the ones this run cleared and the visited cells are exactly the ones
\* this run entered, and when it returns the maze is again a spanning tree.
C4_RegenerationResets ==
  rerun =>
    /\ OpenPairs = carved
    /\ VisitedCells = EnteredCells
    /\ (phase = "generated" => SpanningTree /\ Cardinality(carved) = width * height - 1)

C4_Witness == rerun /\ phase = "generated" /\ width >= 2 /\ height >= 2

\* C5: during one generate() run _generate is entered at most once per cell
\* and never for a cell already marked visited; at completion it was entered
\* exactly once for each cell and every cell is marked visited.
C5_EachCellOnce ==
  /\ ~revisit
  /\ \A c \in Cells : entered[c[2]][c[1]] <= 1
  /\ (phase = "generated" =>
        \A c \in Cells : entered[c[2]][c[1]] = 1 /\ visited[c[2]][c[1]])

C5_Witness == phase = "generated" /\ width = MaxW /\ height = MaxH /\ ~rerun

\* C6: a running generate() always returns, and the recursion depth of
\* _generate never exceeds width*height.
C6_Terminates ==
  /\ [](Len(stack) <= width * height)
  /\ ((phase = "generating") ~> (phase = "generated"))

\* the deepest recursion the bound allows happens: one frame per cell
C6_Witness == Len(stack) = width * height /\ width = MaxW /\ height = MaxH

Outer2x1 ==
  /\ cell_at(0, 0).left /\ cell_at(0, 0).top /\ cell_at(0, 0).bottom
  /\ cell_at(1, 0).right /\ cell_at(1, 0).top /\ cell_at(1, 0).bottom

Generated2x1 == phase = "generated" /\ width = 2 /\ height = 1

\* C7 as stated: after Maze(2,1).generate() exactly one of cell_at(0,0).right
\* and cell_at(1,0).left is false, and all outer walls are true.
C7_ExactlyOneFalse ==
  Generated2x1 => (cell_at(0, 0).right # cell_at(1, 0).left) /\ Outer2x1

\* C7 amended: after Maze(2,1).generate() both cell_at(0,0).right and
\* cell_at(1,0).left are false (the one shared wall is open on both sides),
\* and all outer walls of both cells are true.
C7_SharedWallOpen ==
  Generated2x1 => ~cell_at(0, 0).right /\ ~cell_at(1, 0).left /\ Outer2x1

C7_Witness == Generated2x1 /\ carved = {{<<0, 0>>, <<1, 0>>}}

AllWalls(c) == c.left /\ c.right /\ c.top /\ c.bottom

\* C8: in a 1x1 maze, before, during and after generate(), cell_at(0,0)
\* reports left, right, top and bottom all true: no wall is removed.
C8_SingleCell == (width = 1 /\ height = 1) => AllWalls(cell_at(0, 0))

C8_Witness == width = 1 /\ height = 1 /\ phase = "generated" /\ carved = {}

\* C9: cell_at(x, y) fails with a range error for every (x, y) outside
\* [0,width) x [0,height), negative coordinates included; it never returns a
\* Cell built from another grid position.
C9_OutOfRangeFails ==
  (q.res.err # "nocall" /\ (q.x \notin Xs \/ q.y \notin Ys)) => q.res.err = "IndexError"

\* C11 as stated: constructing a Maze with width = 0 or height = 0 fails at
\* construction time, so no Maze object with a grid without cells exists in
\* any phase and generate() is never run on one.
C11_EmptyMazeRejected == ~EmptyGrid

\* the side of a cell that faces its neighbour at offset (dx, dy)
SideAt(dx, dy) ==
  IF dx = 0 /\ dy = -1 THEN "top"
  ELSE IF dx = -1 /\ dy = 0 THEN "left"
  ELSE IF dx = 0 /\ dy = 1 THEN "bottom"
  ELSE IF dx = 1 /\ dy = 0 THEN "right"
  ELSE "none"

OppositeSide(s) ==
  IF s = "top" THEN "bottom"
  ELSE IF s = "bottom" THEN "top"
  ELSE IF s = "left" THEN "right"
  ELSE IF s = "right" THEN "left"
  ELSE "none"

Sides == {"top", "left", "bottom", "right"}

\* what cell_at decodes for side s of the cell at (x, y) of grid g
WallOn(g, x, y, s) ==
  LET c == CellAtIn(g, x, y).cell
  IN  IF s = "top" THEN c.top
      ELSE IF s = "left" THEN c.left
      ELSE IF s = "bottom" THEN c.bottom
      ELSE c.right

\* between grids g and h the cell at (x, y) loses the wall cell_at decodes as
\* side s, and none of its other bits changes
LosesOnly(g, h, x, y, s) ==
  /\ WallOn(g, x, y, s)
  /\ ~WallOn(h, x, y, s)
  /\ \A t \in Sides \ {s} : WallOn(h, x, y, t) = WallOn(g, x, y, t)
  /\ h[y][x] \div 16 = g[y][x] \div 16

\* a step of _generate that carves from the cell of the innermost frame into
\* the cell of the frame it pushes
CarvingStep == phase = "generating" /\ Len(stack') = Len(stack) + 1

\* C23: when _generate carves from (x, y) to the neighbour at offset (0,-1),
\* (-1,0), (0,1) or (1,0), the bit cleared in (x, y) is the one cell_at
\* decodes as top, left, bottom or right, the bit cleared in the neighbour is
\* the one cell_at decodes as the opposite side, and no other bit of any cell
\* changes in that step; a step that does not carve changes no bit.
C23_BitLayout ==
  [][IF CarvingStep
     THEN LET x == Top.x
              y == Top.y
              i == stack'[Len(stack')].x
              j == stack'[Len(stack')].y
              s == SideAt(i - x, j - y)
          IN  /\ s \in Sides
              /\ LosesOnly(grid, grid', x, y, s)
              /\ LosesOnly(grid, grid', i, j, OppositeSide(s))
              /\ \A c \in Cells \ {<<x, y>>, <<i, j>>} : grid'[c[2]][c[1]] = grid[c[2]][c[1]]
     ELSE phase = "generating" => grid' = grid]_vars

\* the stack holds a carving step to the left and one upwards
C23_Witness ==
  /\ phase = "generating"
  /\ \E k \in 1 .. (Len(stack) - 1) :
       stack[k + 1].x = stack[k].x - 1 /\ ~cell_at(stack[k].x, stack[k].y).left
  /\ \E k \in 1 .. (Len(stack) - 1) :
       stack[k + 1].y = stack[k].y - 1 /\ ~cell_at(stack[k].x, stack[k].y).top

\* C24: in every state of generate() between carving steps, the number of
\* cleared wall pairs is the number of visited cells minus one, every cleared
\* wall joins two visited cells, and every visited cell reaches every other
\* one through cleared walls: the carved part is a tree over the visited cells.
C24_PartialTree ==
  phase = "generating" =>
    /\ Cardinality(OpenPairs) = Cardinality(VisitedCells) - 1
    /\ \A P \in OpenPairs : P \subseteq VisitedCells
    /\ \A c \in VisitedCells : Reach(OpenPairs, {c}) = VisitedCells

\* generation has backtracked and carved a second branch
C24_Witness ==
  /\ phase = "generating"
  /\ Cardinality(VisitedCells) >= 5
  /\ Len(stack) <= Cardinality(VisitedCells) - 2
  /\ Cardinality(VisitedCells) < width * height

\* ------------------------------------------------------------------ ray claims
\* a ray_cast call with a non-zero direction on a generated maze has ended
RayCase == ray.kind # "nocall" /\ phase = "generated" /\ (rarg.dx # 0 \/ rarg.dy # 0)

\* the call returned a point, (Px, Py) in units of 1/Scale
Returned == ray.kind = "hit" /\ IsFinite(ray.pt[1]) /\ IsFinite(ray.pt[2])
Px == ray.pt[1].v
Py == ray.pt[2].v

\* the wall on the vertical grid line k beside row j, and the wall on the
\* horizontal grid line k beside column i
VWall(k, j) == IF k < width THEN cell_at(k, j).left ELSE cell_at(k - 1, j).right
HWall(i, k) == IF k < height THEN cell_at(i, k).top ELSE cell_at(i, k - 1).bottom

InMazeClosure(px, py) ==
  0 <= px /\ px <= width * Scale /\ 0 <= py /\ py <= height * Scale

OnBoundary(px, py) ==
  px = 0 \/ px = width * Scale \/ py = 0 \/ py = height * Scale

OnGridLine(px, py) == px % Scale = 0 \/ py % Scale = 0

\* (px, py) lies on the ray from (rarg.x, rarg.y) in direction (rarg.dx, rarg.dy)
OnRay(px, py) ==
  /\ (px - rarg.x) * rarg.dy = (py - rarg.y) * rarg.dx
  /\ (px - rarg.x) * rarg.dx >= 0
  /\ (py - rarg.y) * rarg.dy >= 0

\* the point (px, py) of the maze is on its boundary or on a present wall; a
\* grid corner is on every wall that ends in it
AtWallOrBoundary(px, py) ==
  /\ InMazeClosure(px, py)
  /\ \/ OnBoundary(px, py)
     \/ /\ px % Scale = 0 /\ py % Scale # 0
        /\ VWall(px \div Scale, py \div Scale)
     \/ /\ py % Scale = 0 /\ px % Scale # 0
        /\ HWall(px \div Scale, py \div Scale)
     \/ /\ px % Scale = 0 /\ py % Scale = 0
        /\ \/ VWall(px \div Scale, py \div Scale - 1)
           \/ VWall(px \div Scale, py \div Scale)
           \/ HWall(px \div Scale - 1, py \div Scale)
           \/ HWall(px \div Scale, py \div Scale)

\* the ray crosses the vertical line k strictly inside row j, before (px, py)
CrossesV(k, j, px) ==
  LET tn == k * Scale - rarg.x
      s == Sign(rarg.dx)
      n == (rarg.y * rarg.dx + rarg.dy * tn) * s
      d == Abs(rarg.dx)
  IN  /\ rarg.dx # 0
      /\ tn * s >= 0
      /\ tn * s < (px - rarg.x) * s
      /\ j * Scale * d < n /\ n < (j + 1) * Scale * d

\* the ray crosses the horizontal line k strictly inside column i, before (px, py)
CrossesH(i, k, py) ==
  LET tn == k * Scale - rarg.y
      s == Sign(rarg.dy)
      n == (rarg.x * rarg.dy + rarg.dx * tn) * s
      d == Abs(rarg.dy)
  IN  /\ rarg.dy # 0
      /\ tn * s >= 0
      /\ tn * s < (py - rarg.y) * s
      /\ i * Scale * d < n /\ n < (i + 1) * Scale * d

\* no present wall is crossed by the ray before (px, py)
NoWallBefore(px, py) ==
  /\ \A k \in 0 .. width : \A j \in Ys : CrossesV(k, j, px) => ~VWall(k, j)
  /\ \A k \in 0 .. height : \A i \in Xs : CrossesH(i, k, py) => ~HWall(i, k)

\* C12: for every start point inside a generated maze and every non-zero
\* direction, the marching loop of ray_cast ends after at most width + height
\* iterations (grid-line crossings).
C12_RayTerminates ==
  RayCase => ray.kind # "unfinished" /\ ray.iters <= width + height

\* a ray that went through open grid lines before it ended
C12_Witness == RayCase /\ ray.kind = "hit" /\ ray.iters >= 3

\* C13 as stated: for every start point inside the maze and every non-zero
\* direction, ray_cast returns a point that lies on a grid line, lies on the
\* ray, is on a present wall or on the maze boundary, and has no present wall
\* crossed by the ray before it.
C13_FirstWallPoint ==
  RayCase =>
    /\ Returned
    /\ OnGridLine(Px, Py)
    /\ OnRay(Px, Py)
    /\ AtWallOrBoundary(Px, Py)
    /\ NoWallBefore(Px, Py)

AxisDir == (rarg.dx = 0) # (rarg.dy = 0)

\* the adjacent grid line of the 1x1 maze in the axis direction of the ray
AdjacentLinePoint ==
  IF rarg.dx > 0 THEN <<Fin(Scale), Fin(rarg.y)>>
  ELSE IF rarg.dx < 0 THEN <<Fin(0), Fin(rarg.y)>>
  ELSE IF rarg.dy > 0 THEN <<Fin(rarg.x), Fin(Scale)>>
  ELSE <<Fin(rarg.x), Fin(0)>>

AxisCase1x1 == ray.kind # "nocall" /\ width = 1 /\ height = 1 /\ AxisDir

\* the start point is not on a grid line that lies across the ray's axis
OffTheLine == IF rarg.dx # 0 THEN rarg.x % Scale # 0 ELSE rarg.y % Scale # 0

C15_EndsAtBoundaryAtWorst ==
  RayCase =>
    /\ Returned
    /\ InMazeClosure(Px, Py)
    /\ \A n \in 1 .. Len(ray.trace) : ray.trace[n].x \in Xs /\ ray.trace[n].y \in Ys
    /\ AtWallOrBoundary(Px, Py)

\* C10 as stated: ray_cast with the zero direction vector fails with an
\* invalid-argument error (Python's ValueError) for every start point; it
\* neither runs on nor returns a hit point.
C10_ZeroDirectionRejected ==
  (ray.kind # "nocall" /\ rarg.dx = 0 /\ rarg.dy = 0) => ray.kind = "ValueError"

\* iteration n of the loop starts with the next horizontal and the next
\* vertical crossing at one and the same point, a corner of the grid
TieAt(n) ==
  /\ IsFinite(ray.cands[n].h[1]) /\ IsFinite(ray.cands[n].h[2])
  /\ ray.cands[n].h = ray.cands[n].v

InsideBox(p) ==
  0 <= p.x /\ p.x + p.width <= GScale /\ 0 <= p.y /\ p.y + p.height <= GScale

\* C16: in a 1x1 maze with all four walls, an agent of size <= 1 whose
\* rectangle starts inside [0,1]x[0,1] has its whole rectangle inside
\* [0,1]x[0,1] after any sequence of set_velocity and update(dt) calls.
C16_Containment ==
  (width = 1 /\ height = 1 /\ op # "none") => InsideBox(player)

\* an update pushed the agent against the right and the bottom wall
C16_Witness ==
  /\ op = "update_clamped"
  /\ player.width = GScale \div 2 /\ player.height = GScale \div 4
  /\ player.x_velocity = MaxVel /\ player.y_velocity = 1
  /\ player.x + player.width = GScale /\ player.y + player.height = GScale

UpdateKinds == {"update", "update_clamped"}

\* the x (y) clamp conditions of update for last_cell c and the position mx
\* (my) after the move
FiresX(c, mx, w) ==
  (c.left /\ mx < c.x * GScale) \/ (c.right /\ mx + w >= (c.x + 1) * GScale)
FiresY(c, my, h) ==
  (c.top /\ my < c.y * GScale) \/ (c.bottom /\ my + h >= (c.y + 1) * GScale)

\* C17: update(dt) takes last_cell from the centre before the move, moves by
\* velocity * dt and clamps per axis against last_cell only: afterwards the
\* player is not past a wall last_cell has (left, right, top, bottom), and on
\* an axis where no clamp condition fires the position is old + velocity * dt.
C17_ClampsAgainstLastCell ==
  [][op' \in UpdateKinds =>
       LET c == current_cell(player).cell
           p == player'
       IN  /\ c.left => p.x >= c.x * GScale
           /\ c.right => p.x + p.width <= (c.x + 1) * GScale
           /\ c.top => p.y >= c.y * GScale
           /\ c.bottom => p.y + p.height <= (c.y + 1) * GScale
           /\ \E dt \in 0 .. MaxDt :
                LET mx == player.x + player.x_velocity * dt
                    my == player.y + player.y_velocity * dt
                IN  /\ ~FiresX(c, mx, p.width) => p.x = mx
                    /\ ~FiresY(c, my, p.height) => p.y = my]_vars

\* an update moved the centre into another cell and left the player across
\* a wall of that cell: only the walls of last_cell were consulted
C17_Witness ==
  /\ op = "update"
  /\ current_cell(player).err = "none"
  /\ \/ current_cell(player).cell.left /\ player.x < CenterCellX(player) * GScale
     \/ current_cell(player).cell.top /\ player.y < CenterCellY(player) * GScale

\* C18: update(dt) changes only the player's x and y: x_velocity, y_velocity,
\* width and height of the player and the maze grid are unchanged by it, also
\* when a clamp is applied.
C18_UpdateFrame ==
  [][op' \in UpdateKinds \cup {"update_failed"} =>
       /\ player'.x_velocity = player.x_velocity
       /\ player'.y_velocity = player.y_velocity
       /\ player'.width = player.width
       /\ player'.height = player.height
       /\ grid' = grid]_vars

\* the player keeps pushing against the wall it was clamped to
C18_Witness ==
  /\ op = "update_clamped"
  /\ player.x_velocity # 0
  /\ player.x + player.width = (CenterCellX(player) + 1) * GScale

\* the player's centre, in half units
CenterX2(p) == 2 * p.x + p.width
CenterY2(p) == 2 * p.y + p.height

\* C25: in a generated maze, from the placement Game.__init__ makes, after any
\* sequence of set_player_move_direction and update(dt) calls with a step of
\* less than one cell per axis, the player's centre is inside
\* [0,width) x [0,height) and no current_cell() call has asked for a cell
\* outside the grid.
C25_CentreInGrid ==
  op # "none" =>
    /\ 0 <= CenterX2(player) /\ CenterX2(player) < 2 * GScale * width
    /\ 0 <= CenterY2(player) /\ CenterY2(player) < 2 * GScale * height
    /\ CenterCellX(player) \in Xs /\ CenterCellY(player) \in Ys
    /\ op # "update_failed"

\* an update of nearly a cell was stopped at the right edge of a maze of more
\* than one column, and the centre is in the last column
C25_Witness ==
  /\ op = "update_clamped"
  /\ width >= 2
  /\ player.x_velocity > 0
  /\ player.x + player.width = GScale * width
  /\ CenterCellX(player) = width - 1

\* the side of a cell towards the next column a2 / the next row b2
HSide(a, a2) == IF a2 > a THEN "right" ELSE "left"
VSide(b, b2) == IF b2 > b THEN "bottom" ELSE "top"

SideOpen(a, b, s) == ~WallOn(grid, a, b, s)

\* the straight segment from the centre of p to the centre of p2, less than a
\* cell long on each axis, leaves each cell it passes by an open side. The
\* grid line between two columns (rows) is met after the fraction ax / lx
\* (ay / ly) of the segment; a segment through the corner where the two lines
\* meet passes no side and is not counted.
ThroughOpenSides(p, p2) ==
  LET a == CenterCellX(p)
      b == CenterCellY(p)
      a2 == CenterCellX(p2)
      b2 == CenterCellY(p2)
      ax == Abs(2 * GScale * (IF a2 > a THEN a2 ELSE a) - CenterX2(p))
      ay == Abs(2 * GScale * (IF b2 > b THEN b2 ELSE b) - CenterY2(p))
      lx == Abs(CenterX2(p2) - CenterX2(p))
      ly == Abs(CenterY2(p2) - CenterY2(p))
  IN  IF a2 = a /\ b2 = b THEN TRUE
      ELSE IF b2 = b THEN SideOpen(a, b, HSide(a, a2))
      ELSE IF a2 = a THEN SideOpen(a, b, VSide(b, b2))
      ELSE IF ax * ly < ay * lx
      THEN SideOpen(a, b, HSide(a, a2)) /\ SideOpen(a2, b, VSide(b, b2))
      ELSE IF ay * lx < ax * ly
      THEN SideOpen(a, b, VSide(b, b2)) /\ SideOpen(a, b2, HSide(a, a2))
      ELSE TRUE

\* C26: in a generated maze, under update(dt) calls with a step of less than
\* the player's half-size per axis, whenever an update moves the player's
\* centre into another cell, the straight segment from the old centre to the
\* new one crosses no present wall: the centre passes from cell to cell only
\* through open sides.
C26_NoWallPassed ==
  [][(op' \in UpdateKinds /\ phase = "generated") =>
       ThroughOpenSides(player, player')]_vars

\* ------------------------------------------------------------------ iteration claims
\* C19 as stated: iterating a Maze yields height row iterators for y = 0 ..
\* height-1 in order, and the iterator of row y yields cell_at(x, y) for
\* x = 0 .. width-1 in order with that row's own y, whenever it is consumed
\* relative to the other rows.
C19_RowMajor ==
  /\ Len(rows) <= height
  /\ \A r \in 1 .. Len(rows) :
       /\ Len(rows[r].calls) <= width
       /\ \A n \in 1 .. Len(rows[r].calls) : rows[r].calls[n] = <<n - 1, r - 1>>

\* ------------------------------------------------------------------ tool claims
\* direction d of ['left', 'up', 'right', 'down']: the side of a cell a drone
\* leaves by, and the offset of the next cell
TravelSide(d) == IF d = 0 THEN "left" ELSE IF d = 1 THEN "top" ELSE IF d = 2 THEN "right" ELSE "bottom"
NextX(x, d) == IF d = 0 THEN x - 1 ELSE IF d = 2 THEN x + 1 ELSE x
NextY(y, d) == IF d = 1 THEN y - 1 ELSE IF d = 3 THEN y + 1 ELSE y

\* the cells from (x, y) in direction d up to the first one with a wall on
\* the travel side, for at most n cells
RECURSIVE Hallway(_, _, _, _)
Hallway(x, y, d, n) ==
  IF n = 0 \/ ~SideOpen(x, y, TravelSide(d)) THEN {<<x, y>>}
  ELSE {<<x, y>>} \cup Hallway(NextX(x, d), NextY(y, d), d, n - 1)

\* a call resumes the drone: it stays in its cell or enters the next cell in
\* its direction, through an open side
CellByCell ==
  (coroutine.st = "suspended" /\ coroutine'.id = coroutine.id /\ coroutine' # coroutine) =>
    /\ coroutine'.st \in {"suspended", "finished"}
    /\ coroutine'.direction = coroutine.direction
    /\ \/ coroutine'.cell = coroutine.cell
       \/ /\ SideOpen(coroutine.cell.x, coroutine.cell.y, TravelSide(coroutine.direction))
          /\ coroutine'.cell.x = NextX(coroutine.cell.x, coroutine.direction)
          /\ coroutine'.cell.y = NextY(coroutine.cell.y, coroutine.direction)

\* the drone is in a cell of the grid, in the hallway that starts at its
\* first cell, and it has ended exactly if that cell has the wall
InHallway ==
  coroutine.st \in {"suspended", "finished"} =>
    /\ <<coroutine.cell.x, coroutine.cell.y>> \in Cells
    /\ coroutine.cell = cell_at(coroutine.cell.x, coroutine.cell.y)
    /\ <<coroutine.cell.x, coroutine.cell.y>>
         \in Hallway(coroutine.first.x, coroutine.first.y, coroutine.direction, width + height)
    /\ (coroutine.st = "finished")
         = ~SideOpen(coroutine.cell.x, coroutine.cell.y, TravelSide(coroutine.direction))

StopSounds(snd) == {n \in 1 .. Len(snd) : snd[n].sound = "stop"}

\* a call queues the stop sound once, as its last sound, if the drone ends in
\* it, and not at all otherwise
StopOnce ==
  (droneVars' # droneVars) =>
    IF coroutine'.st = "finished" /\ (coroutine'.id # coroutine.id \/ coroutine.st = "suspended")
    THEN /\ StopSounds(queued') = {Len(queued')}
         /\ queued'[Len(queued')].id = coroutine'.id
    ELSE StopSounds(queued') = {}

\* C21: after start_hallway_check(direction), under repeated update(dt) calls
\* with dt > 0 and a step of less than one cell, the drone moves cell by cell
\* in its direction and eventually stops; it
\* stops exactly in the first cell from its start cell on that has a wall on
\* the travel side, is never in a cell beyond that wall, and the stop sound is
\* queued exactly once, when it stops.
C21_DroneStopsAtWall ==
  /\ [][CellByCell]_vars
  /\ []InHallway
  /\ [][StopOnce]_vars
  /\ (coroutine.st = "suspended") ~> (coroutine.st # "suspended")

\* a drone has flown into the third cell of a hallway and ended there
C21_Witness ==
  /\ hop = "update"
  /\ coroutine.st = "finished"
  /\ ~running
  /\ Abs(coroutine.cell.x - coroutine.first.x) + Abs(coroutine.cell.y - coroutine.first.y) = 2
  /\ queued # <<>>
  /\ queued[Len(queued)].sound = "stop"

\* the numbers of the markers are 0, 1, 2, ... in placement order
NumbersInOrder ==
  /\ DOMAIN breadcrumbs = {placed[n] : n \in 1 .. Len(placed)}
  /\ \A n \in 1 .. Len(placed) : breadcrumbs[placed[n]] = n - 1
  /\ \A c, d \in DOMAIN breadcrumbs : c # d => breadcrumbs[c] # breadcrumbs[d]

\* a step keeps every marker and its number
NumbersKept ==
  \A c \in DOMAIN breadcrumbs : c \in DOMAIN breadcrumbs' /\ breadcrumbs'[c] = breadcrumbs[c]

\* a step in which BreadcrumbTool.update finds the player in a marked cell
\* other than the cell of the previous update passes that cell's number, and
\* nothing else, to say()
UpdateSpeaks ==
  (/\ tool' = "update"
   /\ seen' # seen \/ spoken' # spoken \/ tool' # tool
   /\ seen # <<>>
   /\ seen'[1] # seen[1]
   /\ seen'[1] \in DOMAIN breadcrumbs)
    => spoken' = <<Str(breadcrumbs[seen'[1]])>>

\* C20: after any sequence of E key presses and update ticks the numbers of
\* the placed markers are pairwise distinct and are 0, 1, 2, ... in placement
\* order, a marked cell's number never changes, and whenever update finds the
\* player in a marked cell that differs from the cell at the previous update,
\* exactly that cell's number is sent to speech.
C20_Breadcrumbs ==
  /\ []NumbersInOrder
  /\ [][NumbersKept]_vars
  /\ [][UpdateSpeaks]_vars

\* the player came back to the first of two markers and its number was said
C20_Witness ==
  /\ tool = "update"
  /\ Len(placed) = 2
  /\ tool_last_cell = placed[1]
  /\ spoken = <<Str(0)>>

\* C28: HallwayCheckTool keeps at most one drone active: after
\* start_hallway_check only the generator started last is referred to, is run
\* or queues sounds; after an update call _coroutine_running is None unless
\* its generator is still suspended at a yield, so a drone that has ended,
\* also one that ended at once in start_hallway_check, is dropped by the
\* next update at the latest; and no exception leaves start_hallway_check or
\* update.
C28_OneDrone ==
  /\ advanced \in {0, starts}
  /\ \A n \in 1 .. Len(queued) : queued[n].id = starts
  /\ running => coroutine.id = starts
  /\ hop = "update" => (running => coroutine.st = "suspended")
  /\ hop \notin {"start_failed", "update_failed"}

\* C29: the drone started by start_hallway_check begins in the cell the
\* player is in: in every reachable player state the cell computed at the
\* start of hallway_check_coroutine is Game.current_cell().
C29_StartsInPlayerCell ==
  [][starts' = starts + 1 => coroutine'.first = current_cell(player).cell]_vars

\* ------------------------------------------------------------------ speech claims
\* sequence a is the beginning of sequence b
IsPrefix(a, b) == Len(a) <= Len(b) /\ a = SubSeq(b, 1, Len(a))

\* what run() has taken from the queue and the engine has not spoken yet
InHand ==
  IF tts_pc = "say" THEN <<tts_text>> ELSE IF tts_pc = "wait" THEN engine_pending ELSE <<>>

\* the texts spoken, the one in the thread's hands and the queue make up, in
\* this order, the texts said: none is lost, doubled or overtaken; the
\* engine holds at most one utterance
InOrderOnce ==
  /\ engine_log \o InHand \o in_queue = said
  /\ IsPrefix(engine_log, said)
  /\ Len(engine_pending) <= 1

\* C27: with say() called from other threads while run() executes, every
\* text passed to say() is spoken by the engine at most once, one at a time
\* and in the order of the say() calls; as long as terminate() has not been
\* called, every text passed to say() is eventually spoken; after terminate()
\* the run loop eventually exits.
C27_SpeechInOrder ==
  /\ []InOrderOnce
  /\ \A n \in 1 .. MaxSay :
       (tts_pc # "new" /\ Len(said) >= n) ~> (Len(engine_log) >= n \/ terminate_event)
  /\ (tts_pc # "new" /\ terminate_event) ~> (tts_pc = "done")

\* MaxSay texts, not all the same, were said while the thread ran and all
\* are spoken, and the thread has not been told to end
C27_Witness ==
  /\ Len(said) = MaxSay
  /\ engine_log = said
  /\ said[1] # said[2]
  /\ ~terminate_event
  /\ tts_pc = "get"

====
